---- MODULE Spec2Model ----
(***************************************************************************)
(* State-machine model of AI_toolbox/app.py: a Streamlit front end with   *)
(* a Gemini chat page and a Stability text-to-image page.                  *)
(*                                                                         *)
(* A Python string is the sequence of its Unicode code points, so that     *)
(* strip(), split(), int(), str() and the substring test are computed as   *)
(* Python computes them on every character; the text of each literal is    *)
(* given in the comment above it.  Exceptions are records [type, msg].     *)
(***************************************************************************)
EXTENDS Integers, Sequences, FiniteSets, TLC

VARIABLES GOOGLE_API_KEY, STABILITY_API_KEY, choice, run, call

vars == <<GOOGLE_API_KEY, STABILITY_API_KEY, choice, run, call>>

(***************************************************************************)
(* Bounds of the explored input space.                                     *)
(***************************************************************************)
MaxPreferLen == 2
MaxListing == 2
MaxChatListing == 1
MaxTextLen == 2

(***************************************************************************)
(* String literals of the source.                                          *)
(***************************************************************************)
\* 'models/gemini-1.5-flash'
NameFlash == <<109, 111, 100, 101, 108, 115, 47, 103, 101, 109, 105, 110, 105, 45, 49, 46, 53, 45, 102, 108, 97, 115, 104>>
\* 'models/gemini-1.5-flash-8b'
NameFlash8b == <<109, 111, 100, 101, 108, 115, 47, 103, 101, 109, 105, 110, 105, 45, 49, 46, 53, 45, 102, 108, 97, 115, 104, 45, 56, 98>>
\* 'models/gemini-1.5-pro'
NamePro == <<109, 111, 100, 101, 108, 115, 47, 103, 101, 109, 105, 110, 105, 45, 49, 46, 53, 45, 112, 114, 111>>
\* 'gemini-1.5'
VersionTag == <<103, 101, 109, 105, 110, 105, 45, 49, 46, 53>>
\* 'generateContent'
GenerateContent == <<103, 101, 110, 101, 114, 97, 116, 101, 67, 111, 110, 116, 101, 110, 116>>
\* '512x512'
Size512 == <<53, 49, 50, 120, 53, 49, 50>>
\* '768x512'
Size768x512 == <<55, 54, 56, 120, 53, 49, 50>>
\* '512x768'
Size512x768 == <<53, 49, 50, 120, 55, 54, 56>>
\* '1024x1024'
Size1024 == <<49, 48, 50, 52, 120, 49, 48, 50, 52>>
\* 'https://api.stability.ai/v2beta/stable-image/generate/core'
StabilityUrl == <<104, 116, 116, 112, 115, 58, 47, 47, 97, 112, 105, 46, 115, 116, 97, 98, 105, 108, 105, 116, 121, 46, 97, 105, 47, 118, 50, 98, 101, 116, 97, 47, 115, 116, 97, 98, 108, 101, 45, 105, 109, 97, 103, 101, 47, 103, 101, 110, 101, 114, 97, 116, 101, 47, 99, 111, 114, 101>>
\* 'Bearer '
Bearer == <<66, 101, 97, 114, 101, 114, 32>>
\* 'text-to-image'
TextToImage == <<116, 101, 120, 116, 45, 116, 111, 45, 105, 109, 97, 103, 101>>
\* 'png'
Png == <<112, 110, 103>>
\* the literal of line 74: '\u6b64 API \u91d1\u9470\u67e5\u7121\u53ef\u7528 Gemini \u6a21\u578b\uff0c\u8acb\u81f3 AI Studio \u6aa2\u67e5\u6b0a\u9650\u6216\u66f4\u63db\u91d1\u9470\u3002'
MsgNoUsableModel == <<27492, 32, 65, 80, 73, 32, 37329, 38000, 26597, 28961, 21487, 29992, 32, 71, 101, 109, 105, 110, 105, 32, 27169, 22411, 65292, 35531, 33267, 32, 65, 73, 32, 83, 116, 117, 100, 105, 111, 32, 27298, 26597, 27402, 38480, 25110, 26356, 25563, 37329, 38000, 12290>>
\* the literal of line 79: '\u627e\u4e0d\u5230 GOOGLE_API_KEY / GEMINI_API_KEY\uff0c\u8acb\u5148\u8a2d\u5b9a\u74b0\u5883\u8b8a\u6578\u3002'
MsgNoGoogleKey == <<25214, 19981, 21040, 32, 71, 79, 79, 71, 76, 69, 95, 65, 80, 73, 95, 75, 69, 89, 32, 47, 32, 71, 69, 77, 73, 78, 73, 95, 65, 80, 73, 95, 75, 69, 89, 65292, 35531, 20808, 35373, 23450, 29872, 22659, 35722, 25976, 12290>>
\* the literal of line 95: '\u627e\u4e0d\u5230 STABILITY_API_KEY\uff0c\u8acb\u5148\u8a2d\u5b9a\u74b0\u5883\u8b8a\u6578\u3002'
MsgNoStabilityKey == <<25214, 19981, 21040, 32, 83, 84, 65, 66, 73, 76, 73, 84, 89, 95, 65, 80, 73, 95, 75, 69, 89, 65292, 35531, 20808, 35373, 23450, 29872, 22659, 35722, 25976, 12290>>
\* the literal of line 115: 'Stability API \u5931\u6557\uff1a'
MsgStabilityFailed == <<83, 116, 97, 98, 105, 108, 105, 116, 121, 32, 65, 80, 73, 32, 22833, 25943, 65306>>
\* the literal of line 150: '\u8acb\u5148\u8f38\u5165\u8a0a\u606f'
MsgEnterMessage == <<35531, 20808, 36664, 20837, 35338, 24687>>
\* the literal of line 159: '\u6c92\u6709\u53d6\u5f97\u56de\u8986\u6587\u5b57\uff0c\u8acb\u7a0d\u5f8c\u518d\u8a66'
MsgNoReply == <<27794, 26377, 21462, 24471, 22238, 35206, 25991, 23383, 65292, 35531, 31245, 24460, 20877, 35430>>
\* the literal of line 161: '\u767c\u751f\u932f\u8aa4\uff1a'
MsgErrorOccurred == <<30332, 29983, 37679, 35492, 65306>>
\* the literal of line 176: '\u8acb\u5148\u8f38\u5165\u63cf\u8ff0'
MsgEnterDescription == <<35531, 20808, 36664, 20837, 25551, 36848>>

DefaultPreferList == <<NameFlash, NameFlash8b, NamePro>>
SizeOptions == {Size512, Size768x512, Size512x768, Size1024}
StatusOK == 200
PostTimeout == 120

\* Python's None where a string is expected (no code point is negative), and
\* where a list of strings is expected
None == <<-1>>
NoneList == <<None>>
EmptyStr == <<>>

(***************************************************************************)
(* Python string primitives.                                               *)
(***************************************************************************)
\* the code points c with chr(c).isspace(), which str.strip() removes
PyWhitespace ==
  {9, 10, 11, 12, 13, 28, 29, 30, 31, 32, 133, 160, 5760, 8192, 8193, 8194,
   8195, 8196, 8197, 8198, 8199, 8200, 8201, 8202, 8232, 8233, 8239, 8287,
   12288}

\* str.lstrip(): s from its first character that is not whitespace
LStrip(s) ==
  IF \A i \in 1..Len(s) : s[i] \in PyWhitespace THEN <<>>
  ELSE SubSeq(s, CHOOSE k \in 1..Len(s) :
                   s[k] \notin PyWhitespace /\ \A j \in 1..(k - 1) : s[j] \in PyWhitespace,
              Len(s))

\* str.rstrip(): s up to its last character that is not whitespace
RStrip(s) ==
  IF \A i \in 1..Len(s) : s[i] \in PyWhitespace THEN <<>>
  ELSE SubSeq(s, 1, CHOOSE k \in 1..Len(s) :
                      s[k] \notin PyWhitespace /\ \A j \in (k + 1)..Len(s) : s[j] \in PyWhitespace)

\* strip() that forgets the trailing side
StripLeftOnly(s) == LStrip(s)
\* str.strip()
Strip(s) == RStrip(LStrip(s))

\* "t in s" for strings
Contains(s, t) ==
  \E i \in 1..(Len(s) - Len(t) + 1) : SubSeq(s, i, i + Len(t) - 1) = t

\* truth value of an Optional[str]
Truthy(x) == x # None /\ x # EmptyStr

\* "a or b" on Optional[str]
Or(a, b) == IF Truthy(a) THEN a ELSE b

\* str.split(sep) for a one-character separator: the pieces between the
\* occurrences of sep
Split(s, sep) ==
  LET at == {i \in 1..Len(s) : s[i] = sep}
      n == Cardinality(at)
      cut(k) == IF k = 0 THEN 0
                ELSE IF k = n + 1 THEN Len(s) + 1
                ELSE CHOOSE i \in at : Cardinality({j \in at : j < i}) = k - 1
  IN [k \in 1..(n + 1) |-> SubSeq(s, cut(k - 1) + 1, cut(k) - 1)]

\* the code points of the digit zero of every Unicode decimal-digit script;
\* the nine code points after each are its digits one to nine
DigitZeros ==
  {48, 1632, 1776, 1984, 2406, 2534, 2662, 2790, 2918, 3046, 3174, 3302,
   3430, 3558, 3664, 3792, 3872, 4160, 4240, 6112, 6160, 6470, 6608, 6784,
   6800, 6992, 7088, 7232, 7248, 42528, 43216, 43264, 43472, 43504, 43600,
   44016, 65296, 66720, 68912, 69734, 69872, 69942, 70096, 70384, 70736,
   70864, 71248, 71360, 71472, 71904, 72016, 72784, 73040, 73120, 92768,
   92864, 93008, 120782, 120792, 120802, 120812, 120822, 123200, 123632,
   125264, 130032}
IsDigit(c) ==
  \/ 48 <= c /\ c <= 57
  \/ c > 127 /\ \E z \in DigitZeros : z <= c /\ c <= z + 9
DigitVal(c) ==
  IF c <= 57 THEN c - 48 ELSE c - (CHOOSE z \in DigitZeros : z <= c /\ c <= z + 9)

RECURSIVE NatToStr(_)
NatToStr(n) ==
  IF n < 10 THEN <<48 + n>> ELSE NatToStr(n \div 10) \o <<48 + (n % 10)>>

\* str(n)
IntToStr(n) == IF n < 0 THEN <<45>> \o NatToStr(0 - n) ELSE NatToStr(n)

\* n in lower-case hexadecimal, w digits wide
Hex(n, w) ==
  [i \in 1..w |-> LET d == (n \div (16 ^ (w - i))) % 16
                   IN IF d < 10 THEN 48 + d ELSE 97 + (d - 10)]

\* the ranges of code points for which str.isprintable() is false
NonPrintable ==
  {<<0, 31>>, <<127, 160>>, <<173, 173>>, <<888, 889>>, <<896, 899>>,
   <<907, 907>>, <<909, 909>>, <<930, 930>>, <<1328, 1328>>,
   <<1367, 1368>>, <<1419, 1420>>, <<1424, 1424>>, <<1480, 1487>>,
   <<1515, 1518>>, <<1525, 1541>>, <<1564, 1564>>, <<1757, 1757>>,
   <<1806, 1807>>, <<1867, 1868>>, <<1970, 1983>>, <<2043, 2044>>,
   <<2094, 2095>>, <<2111, 2111>>, <<2140, 2141>>, <<2143, 2143>>,
   <<2155, 2159>>, <<2191, 2199>>, <<2274, 2274>>, <<2436, 2436>>,
   <<2445, 2446>>, <<2449, 2450>>, <<2473, 2473>>, <<2481, 2481>>,
   <<2483, 2485>>, <<2490, 2491>>, <<2501, 2502>>, <<2505, 2506>>,
   <<2511, 2518>>, <<2520, 2523>>, <<2526, 2526>>, <<2532, 2533>>,
   <<2559, 2560>>, <<2564, 2564>>, <<2571, 2574>>, <<2577, 2578>>,
   <<2601, 2601>>, <<2609, 2609>>, <<2612, 2612>>, <<2615, 2615>>,
   <<2618, 2619>>, <<2621, 2621>>, <<2627, 2630>>, <<2633, 2634>>,
   <<2638, 2640>>, <<2642, 2648>>, <<2653, 2653>>, <<2655, 2661>>,
   <<2679, 2688>>, <<2692, 2692>>, <<2702, 2702>>, <<2706, 2706>>,
   <<2729, 2729>>, <<2737, 2737>>, <<2740, 2740>>, <<2746, 2747>>,
   <<2758, 2758>>, <<2762, 2762>>, <<2766, 2767>>, <<2769, 2783>>,
   <<2788, 2789>>, <<2802, 2808>>, <<2816, 2816>>, <<2820, 2820>>,
   <<2829, 2830>>, <<2833, 2834>>, <<2857, 2857>>, <<2865, 2865>>,
   <<2868, 2868>>, <<2874, 2875>>, <<2885, 2886>>, <<2889, 2890>>,
   <<2894, 2900>>, <<2904, 2907>>, <<2910, 2910>>, <<2916, 2917>>,
   <<2936, 2945>>, <<2948, 2948>>, <<2955, 2957>>, <<2961, 2961>>,
   <<2966, 2968>>, <<2971, 2971>>, <<2973, 2973>>, <<2976, 2978>>,
   <<2981, 2983>>, <<2987, 2989>>, <<3002, 3005>>, <<3011, 3013>>,
   <<3017, 3017>>, <<3022, 3023>>, <<3025, 3030>>, <<3032, 3045>>,
   <<3067, 3071>>, <<3085, 3085>>, <<3089, 3089>>, <<3113, 3113>>,
   <<3130, 3131>>, <<3141, 3141>>, <<3145, 3145>>, <<3150, 3156>>,
   <<3159, 3159>>, <<3163, 3164>>, <<3166, 3167>>, <<3172, 3173>>,
   <<3184, 3190>>, <<3213, 3213>>, <<3217, 3217>>, <<3241, 3241>>,
   <<3252, 3252>>, <<3258, 3259>>, <<3269, 3269>>, <<3273, 3273>>,
   <<3278, 3284>>, <<3287, 3292>>, <<3295, 3295>>, <<3300, 3301>>,
   <<3312, 3312>>, <<3315, 3327>>, <<3341, 3341>>, <<3345, 3345>>,
   <<3397, 3397>>, <<3401, 3401>>, <<3408, 3411>>, <<3428, 3429>>,
   <<3456, 3456>>, <<3460, 3460>>, <<3479, 3481>>, <<3506, 3506>>,
   <<3516, 3516>>, <<3518, 3519>>, <<3527, 3529>>, <<3531, 3534>>,
   <<3541, 3541>>, <<3543, 3543>>, <<3552, 3557>>, <<3568, 3569>>,
   <<3573, 3584>>, <<3643, 3646>>, <<3676, 3712>>, <<3715, 3715>>,
   <<3717, 3717>>, <<3723, 3723>>, <<3748, 3748>>, <<3750, 3750>>,
   <<3774, 3775>>, <<3781, 3781>>, <<3783, 3783>>, <<3790, 3791>>,
   <<3802, 3803>>, <<3808, 3839>>, <<3912, 3912>>, <<3949, 3952>>,
   <<3992, 3992>>, <<4029, 4029>>, <<4045, 4045>>, <<4059, 4095>>,
   <<4294, 4294>>, <<4296, 4300>>, <<4302, 4303>>, <<4681, 4681>>,
   <<4686, 4687>>, <<4695, 4695>>, <<4697, 4697>>, <<4702, 4703>>,
   <<4745, 4745>>, <<4750, 4751>>, <<4785, 4785>>, <<4790, 4791>>,
   <<4799, 4799>>, <<4801, 4801>>, <<4806, 4807>>, <<4823, 4823>>,
   <<4881, 4881>>, <<4886, 4887>>, <<4955, 4956>>, <<4989, 4991>>,
   <<5018, 5023>>, <<5110, 5111>>, <<5118, 5119>>, <<5760, 5760>>,
   <<5789, 5791>>, <<5881, 5887>>, <<5910, 5918>>, <<5943, 5951>>,
   <<5972, 5983>>, <<5997, 5997>>, <<6001, 6001>>, <<6004, 6015>>,
   <<6110, 6111>>, <<6122, 6127>>, <<6138, 6143>>, <<6158, 6158>>,
   <<6170, 6175>>, <<6265, 6271>>, <<6315, 6319>>, <<6390, 6399>>,
   <<6431, 6431>>, <<6444, 6447>>, <<6460, 6463>>, <<6465, 6467>>,
   <<6510, 6511>>, <<6517, 6527>>, <<6572, 6575>>, <<6602, 6607>>,
   <<6619, 6621>>, <<6684, 6685>>, <<6751, 6751>>, <<6781, 6782>>,
   <<6794, 6799>>, <<6810, 6815>>, <<6830, 6831>>, <<6863, 6911>>,
   <<6989, 6991>>, <<7039, 7039>>, <<7156, 7163>>, <<7224, 7226>>,
   <<7242, 7244>>, <<7305, 7311>>, <<7355, 7356>>, <<7368, 7375>>,
   <<7419, 7423>>, <<7958, 7959>>, <<7966, 7967>>, <<8006, 8007>>,
   <<8014, 8015>>, <<8024, 8024>>, <<8026, 8026>>, <<8028, 8028>>,
   <<8030, 8030>>, <<8062, 8063>>, <<8117, 8117>>, <<8133, 8133>>,
   <<8148, 8149>>, <<8156, 8156>>, <<8176, 8177>>, <<8181, 8181>>,
   <<8191, 8207>>, <<8232, 8239>>, <<8287, 8303>>, <<8306, 8307>>,
   <<8335, 8335>>, <<8349, 8351>>, <<8385, 8399>>, <<8433, 8447>>,
   <<8588, 8591>>, <<9255, 9279>>, <<9291, 9311>>, <<11124, 11125>>,
   <<11158, 11158>>, <<11508, 11512>>, <<11558, 11558>>, <<11560, 11564>>,
   <<11566, 11567>>, <<11624, 11630>>, <<11633, 11646>>, <<11671, 11679>>,
   <<11687, 11687>>, <<11695, 11695>>, <<11703, 11703>>, <<11711, 11711>>,
   <<11719, 11719>>, <<11727, 11727>>, <<11735, 11735>>, <<11743, 11743>>,
   <<11870, 11903>>, <<11930, 11930>>, <<12020, 12031>>, <<12246, 12271>>,
   <<12284, 12288>>, <<12352, 12352>>, <<12439, 12440>>, <<12544, 12548>>,
   <<12592, 12592>>, <<12687, 12687>>, <<12772, 12783>>, <<12831, 12831>>,
   <<42125, 42127>>, <<42183, 42191>>, <<42540, 42559>>, <<42744, 42751>>,
   <<42955, 42959>>, <<42962, 42962>>, <<42964, 42964>>, <<42970, 42993>>,
   <<43053, 43055>>, <<43066, 43071>>, <<43128, 43135>>, <<43206, 43213>>,
   <<43226, 43231>>, <<43348, 43358>>, <<43389, 43391>>, <<43470, 43470>>,
   <<43482, 43485>>, <<43519, 43519>>, <<43575, 43583>>, <<43598, 43599>>,
   <<43610, 43611>>, <<43715, 43738>>, <<43767, 43776>>, <<43783, 43784>>,
   <<43791, 43792>>, <<43799, 43807>>, <<43815, 43815>>, <<43823, 43823>>,
   <<43884, 43887>>, <<44014, 44015>>, <<44026, 44031>>, <<55204, 55215>>,
   <<55239, 55242>>, <<55292, 63743>>, <<64110, 64111>>, <<64218, 64255>>,
   <<64263, 64274>>, <<64280, 64284>>, <<64311, 64311>>, <<64317, 64317>>,
   <<64319, 64319>>, <<64322, 64322>>, <<64325, 64325>>, <<64451, 64466>>,
   <<64912, 64913>>, <<64968, 64974>>, <<64976, 65007>>, <<65050, 65055>>,
   <<65107, 65107>>, <<65127, 65127>>, <<65132, 65135>>, <<65141, 65141>>,
   <<65277, 65280>>, <<65471, 65473>>, <<65480, 65481>>, <<65488, 65489>>,
   <<65496, 65497>>, <<65501, 65503>>, <<65511, 65511>>, <<65519, 65531>>,
   <<65534, 65535>>, <<65548, 65548>>, <<65575, 65575>>, <<65595, 65595>>,
   <<65598, 65598>>, <<65614, 65615>>, <<65630, 65663>>, <<65787, 65791>>,
   <<65795, 65798>>, <<65844, 65846>>, <<65935, 65935>>, <<65949, 65951>>,
   <<65953, 65999>>, <<66046, 66175>>, <<66205, 66207>>, <<66257, 66271>>,
   <<66300, 66303>>, <<66340, 66348>>, <<66379, 66383>>, <<66427, 66431>>,
   <<66462, 66462>>, <<66500, 66503>>, <<66518, 66559>>, <<66718, 66719>>,
   <<66730, 66735>>, <<66772, 66775>>, <<66812, 66815>>, <<66856, 66863>>,
   <<66916, 66926>>, <<66939, 66939>>, <<66955, 66955>>, <<66963, 66963>>,
   <<66966, 66966>>, <<66978, 66978>>, <<66994, 66994>>, <<67002, 67002>>,
   <<67005, 67071>>, <<67383, 67391>>, <<67414, 67423>>, <<67432, 67455>>,
   <<67462, 67462>>, <<67505, 67505>>, <<67515, 67583>>, <<67590, 67591>>,
   <<67593, 67593>>, <<67638, 67638>>, <<67641, 67643>>, <<67645, 67646>>,
   <<67670, 67670>>, <<67743, 67750>>, <<67760, 67807>>, <<67827, 67827>>,
   <<67830, 67834>>, <<67868, 67870>>, <<67898, 67902>>, <<67904, 67967>>,
   <<68024, 68027>>, <<68048, 68049>>, <<68100, 68100>>, <<68103, 68107>>,
   <<68116, 68116>>, <<68120, 68120>>, <<68150, 68151>>, <<68155, 68158>>,
   <<68169, 68175>>, <<68185, 68191>>, <<68256, 68287>>, <<68327, 68330>>,
   <<68343, 68351>>, <<68406, 68408>>, <<68438, 68439>>, <<68467, 68471>>,
   <<68498, 68504>>, <<68509, 68520>>, <<68528, 68607>>, <<68681, 68735>>,
   <<68787, 68799>>, <<68851, 68857>>, <<68904, 68911>>, <<68922, 69215>>,
   <<69247, 69247>>, <<69290, 69290>>, <<69294, 69295>>, <<69298, 69375>>,
   <<69416, 69423>>, <<69466, 69487>>, <<69514, 69551>>, <<69580, 69599>>,
   <<69623, 69631>>, <<69710, 69713>>, <<69750, 69758>>, <<69821, 69821>>,
   <<69827, 69839>>, <<69865, 69871>>, <<69882, 69887>>, <<69941, 69941>>,
   <<69960, 69967>>, <<70007, 70015>>, <<70112, 70112>>, <<70133, 70143>>,
   <<70162, 70162>>, <<70207, 70271>>, <<70279, 70279>>, <<70281, 70281>>,
   <<70286, 70286>>, <<70302, 70302>>, <<70314, 70319>>, <<70379, 70383>>,
   <<70394, 70399>>, <<70404, 70404>>, <<70413, 70414>>, <<70417, 70418>>,
   <<70441, 70441>>, <<70449, 70449>>, <<70452, 70452>>, <<70458, 70458>>,
   <<70469, 70470>>, <<70473, 70474>>, <<70478, 70479>>, <<70481, 70486>>,
   <<70488, 70492>>, <<70500, 70501>>, <<70509, 70511>>, <<70517, 70655>>,
   <<70748, 70748>>, <<70754, 70783>>, <<70856, 70863>>, <<70874, 71039>>,
   <<71094, 71095>>, <<71134, 71167>>, <<71237, 71247>>, <<71258, 71263>>,
   <<71277, 71295>>, <<71354, 71359>>, <<71370, 71423>>, <<71451, 71452>>,
   <<71468, 71471>>, <<71495, 71679>>, <<71740, 71839>>, <<71923, 71934>>,
   <<71943, 71944>>, <<71946, 71947>>, <<71956, 71956>>, <<71959, 71959>>,
   <<71990, 71990>>, <<71993, 71994>>, <<72007, 72015>>, <<72026, 72095>>,
   <<72104, 72105>>, <<72152, 72153>>, <<72165, 72191>>, <<72264, 72271>>,
   <<72355, 72367>>, <<72441, 72703>>, <<72713, 72713>>, <<72759, 72759>>,
   <<72774, 72783>>, <<72813, 72815>>, <<72848, 72849>>, <<72872, 72872>>,
   <<72887, 72959>>, <<72967, 72967>>, <<72970, 72970>>, <<73015, 73017>>,
   <<73019, 73019>>, <<73022, 73022>>, <<73032, 73039>>, <<73050, 73055>>,
   <<73062, 73062>>, <<73065, 73065>>, <<73103, 73103>>, <<73106, 73106>>,
   <<73113, 73119>>, <<73130, 73439>>, <<73465, 73647>>, <<73649, 73663>>,
   <<73714, 73726>>, <<74650, 74751>>, <<74863, 74863>>, <<74869, 74879>>,
   <<75076, 77711>>, <<77811, 77823>>, <<78895, 82943>>, <<83527, 92159>>,
   <<92729, 92735>>, <<92767, 92767>>, <<92778, 92781>>, <<92863, 92863>>,
   <<92874, 92879>>, <<92910, 92911>>, <<92918, 92927>>, <<92998, 93007>>,
   <<93018, 93018>>, <<93026, 93026>>, <<93048, 93052>>, <<93072, 93759>>,
   <<93851, 93951>>, <<94027, 94030>>, <<94088, 94094>>, <<94112, 94175>>,
   <<94181, 94191>>, <<94194, 94207>>, <<100344, 100351>>,
   <<101590, 101631>>, <<101641, 110575>>, <<110580, 110580>>,
   <<110588, 110588>>, <<110591, 110591>>, <<110883, 110927>>,
   <<110931, 110947>>, <<110952, 110959>>, <<111356, 113663>>,
   <<113771, 113775>>, <<113789, 113791>>, <<113801, 113807>>,
   <<113818, 113819>>, <<113824, 118527>>, <<118574, 118575>>,
   <<118599, 118607>>, <<118724, 118783>>, <<119030, 119039>>,
   <<119079, 119080>>, <<119155, 119162>>, <<119275, 119295>>,
   <<119366, 119519>>, <<119540, 119551>>, <<119639, 119647>>,
   <<119673, 119807>>, <<119893, 119893>>, <<119965, 119965>>,
   <<119968, 119969>>, <<119971, 119972>>, <<119975, 119976>>,
   <<119981, 119981>>, <<119994, 119994>>, <<119996, 119996>>,
   <<120004, 120004>>, <<120070, 120070>>, <<120075, 120076>>,
   <<120085, 120085>>, <<120093, 120093>>, <<120122, 120122>>,
   <<120127, 120127>>, <<120133, 120133>>, <<120135, 120137>>,
   <<120145, 120145>>, <<120486, 120487>>, <<120780, 120781>>,
   <<121484, 121498>>, <<121504, 121504>>, <<121520, 122623>>,
   <<122655, 122879>>, <<122887, 122887>>, <<122905, 122906>>,
   <<122914, 122914>>, <<122917, 122917>>, <<122923, 123135>>,
   <<123181, 123183>>, <<123198, 123199>>, <<123210, 123213>>,
   <<123216, 123535>>, <<123567, 123583>>, <<123642, 123646>>,
   <<123648, 124895>>, <<124903, 124903>>, <<124908, 124908>>,
   <<124911, 124911>>, <<124927, 124927>>, <<125125, 125126>>,
   <<125143, 125183>>, <<125260, 125263>>, <<125274, 125277>>,
   <<125280, 126064>>, <<126133, 126208>>, <<126270, 126463>>,
   <<126468, 126468>>, <<126496, 126496>>, <<126499, 126499>>,
   <<126501, 126502>>, <<126504, 126504>>, <<126515, 126515>>,
   <<126520, 126520>>, <<126522, 126522>>, <<126524, 126529>>,
   <<126531, 126534>>, <<126536, 126536>>, <<126538, 126538>>,
   <<126540, 126540>>, <<126544, 126544>>, <<126547, 126547>>,
   <<126549, 126550>>, <<126552, 126552>>, <<126554, 126554>>,
   <<126556, 126556>>, <<126558, 126558>>, <<126560, 126560>>,
   <<126563, 126563>>, <<126565, 126566>>, <<126571, 126571>>,
   <<126579, 126579>>, <<126584, 126584>>, <<126589, 126589>>,
   <<126591, 126591>>, <<126602, 126602>>, <<126620, 126624>>,
   <<126628, 126628>>, <<126634, 126634>>, <<126652, 126703>>,
   <<126706, 126975>>, <<127020, 127023>>, <<127124, 127135>>,
   <<127151, 127152>>, <<127168, 127168>>, <<127184, 127184>>,
   <<127222, 127231>>, <<127406, 127461>>, <<127491, 127503>>,
   <<127548, 127551>>, <<127561, 127567>>, <<127570, 127583>>,
   <<127590, 127743>>, <<128728, 128732>>, <<128749, 128751>>,
   <<128765, 128767>>, <<128884, 128895>>, <<128985, 128991>>,
   <<129004, 129007>>, <<129009, 129023>>, <<129036, 129039>>,
   <<129096, 129103>>, <<129114, 129119>>, <<129160, 129167>>,
   <<129198, 129199>>, <<129202, 129279>>, <<129620, 129631>>,
   <<129646, 129647>>, <<129653, 129655>>, <<129661, 129663>>,
   <<129671, 129679>>, <<129709, 129711>>, <<129723, 129727>>,
   <<129734, 129743>>, <<129754, 129759>>, <<129768, 129775>>,
   <<129783, 129791>>, <<129939, 129939>>, <<129995, 130031>>,
   <<130042, 131071>>, <<173792, 173823>>, <<177977, 177983>>,
   <<178206, 178207>>, <<183970, 183983>>, <<191457, 194559>>,
   <<195102, 196607>>, <<201547, 917759>>, <<918000, 1114111>>}
IsPrintable(c) ==
  IF c < 127 THEN c >= 32 ELSE ~\E r \in NonPrintable : r[1] <= c /\ c <= r[2]

\* the quote repr() puts around s
ReprQuote(s) ==
  IF (\E i \in 1..Len(s) : s[i] = 39) /\ ~(\E i \in 1..Len(s) : s[i] = 34)
  THEN 34 ELSE 39

\* what repr() writes for one character inside the quotes q
ReprChar(c, q) ==
  IF c = q \/ c = 92 THEN <<92, c>>
  ELSE IF c = 9 THEN <<92, 116>>
  ELSE IF c = 10 THEN <<92, 110>>
  ELSE IF c = 13 THEN <<92, 114>>
  ELSE IF IsPrintable(c) THEN <<c>>
  ELSE IF c < 256 THEN <<92, 120>> \o Hex(c, 2)
  ELSE IF c < 65536 THEN <<92, 117>> \o Hex(c, 4)
  ELSE <<92, 85>> \o Hex(c, 8)

RECURSIVE ReprChars(_, _)
ReprChars(s, q) == IF s = <<>> THEN <<>> ELSE ReprChar(Head(s), q) \o ReprChars(Tail(s), q)

\* the "%.200R" of int()'s error message: repr(s) cut after ReprLimit
\* characters; every character of s gives at least one of repr(s), so the
\* characters of s after the first ReprLimit - 1 are never shown
ReprLimit == 200
Repr200(s) ==
  LET q == ReprQuote(s)
      head == SubSeq(s, 1, IF Len(s) < ReprLimit THEN Len(s) ELSE ReprLimit - 1)
      full == <<q>> \o ReprChars(head, q) \o <<q>>
  IN SubSeq(full, 1, IF Len(full) < ReprLimit THEN Len(full) ELSE ReprLimit)

\* what int() skips around a literal: the isspace() code points except the
\* four ASCII separators 28..31
IntWhitespace == PyWhitespace \ {28, 29, 30, 31}

\* s without the whitespace int() skips at both ends
IntStrip(s) ==
  IF \A i \in 1..Len(s) : s[i] \in IntWhitespace THEN <<>>
  ELSE SubSeq(s,
              CHOOSE k \in 1..Len(s) :
                s[k] \notin IntWhitespace /\ \A j \in 1..(k - 1) : s[j] \in IntWhitespace,
              CHOOSE k \in 1..Len(s) :
                s[k] \notin IntWhitespace /\ \A j \in (k + 1)..Len(s) : s[j] \in IntWhitespace)

\* what follows the optional sign of an int() literal
IntBody(s) ==
  LET t == IntStrip(s)
  IN IF t # <<>> /\ t[1] \in {43, 45} THEN Tail(t) ELSE t

\* the run of digits and underscores int() scans at the start of the body
IntRun(b) ==
  LET other(i) == ~(IsDigit(b[i]) \/ b[i] = 95)
  IN IF \A i \in 1..Len(b) : ~other(i) THEN b
     ELSE SubSeq(b, 1, (CHOOSE k \in 1..Len(b) : other(k) /\ \A j \in 1..(k - 1) : ~other(j)) - 1)

\* the run is digits with single underscores between digits
RunWellFormed(r) ==
  /\ r # <<>>
  /\ r[1] # 95 /\ r[Len(r)] # 95
  /\ \A i \in 1..(Len(r) - 1) : ~(r[i] = 95 /\ r[i + 1] = 95)

DigitCount(r) == Cardinality({i \in 1..Len(r) : r[i] # 95})

\* sys.get_int_max_str_digits() of an interpreter started without
\* PYTHONINTMAXSTRDIGITS or -X int_max_str_digits
IntMaxStrDigits == 4300

\* 'invalid literal for int() with base 10: '
MsgInvalidLiteral == <<105, 110, 118, 97, 108, 105, 100, 32, 108, 105, 116, 101, 114, 97, 108, 32, 102, 111, 114, 32, 105, 110, 116, 40, 41, 32, 119, 105, 116, 104, 32, 98, 97, 115, 101, 32, 49, 48, 58, 32>>
\* 'Exceeds the limit (<limit> digits) for integer string conversion: value
\* has <n> digits; use sys.set_int_max_str_digits() to increase the limit'
MsgExceedsLimit(limit, n) ==
  <<69, 120, 99, 101, 101, 100, 115, 32, 116, 104, 101, 32, 108, 105, 109, 105, 116, 32, 40>> \o IntToStr(limit)
    \o <<32, 100, 105, 103, 105, 116, 115, 41, 32, 102, 111, 114, 32, 105, 110, 116, 101, 103, 101, 114, 32, 115, 116, 114, 105, 110, 103, 32, 99, 111, 110, 118, 101, 114, 115, 105, 111, 110, 58, 32, 118, 97, 108, 117, 101, 32, 104, 97, 115, 32>> \o IntToStr(n)
    \o <<32, 100, 105, 103, 105, 116, 115, 59, 32, 117, 115, 101, 32, 115, 121, 115, 46, 115, 101, 116, 95, 105, 110, 116, 95, 109, 97, 120, 95, 115, 116, 114, 95, 100, 105, 103, 105, 116, 115, 40, 41, 32, 116, 111, 32, 105, 110, 99, 114, 101, 97, 115, 101, 32, 116, 104, 101, 32, 108, 105, 109, 105, 116>>
\* 'not enough values to unpack (expected 2, got <n>)'
MsgNotEnoughValues(n) ==
  <<110, 111, 116, 32, 101, 110, 111, 117, 103, 104, 32, 118, 97, 108, 117, 101, 115, 32, 116, 111, 32, 117, 110, 112, 97, 99, 107, 32, 40, 101, 120, 112, 101, 99, 116, 101, 100, 32, 50, 44, 32, 103, 111, 116, 32>> \o IntToStr(n) \o <<41>>
\* 'too many values to unpack (expected 2)'
MsgTooManyValues == <<116, 111, 111, 32, 109, 97, 110, 121, 32, 118, 97, 108, 117, 101, 115, 32, 116, 111, 32, 117, 110, 112, 97, 99, 107, 32, 40, 101, 120, 112, 101, 99, 116, 101, 100, 32, 50, 41>>

\* an exception: its class and str(e); NoError where none was raised
Error(type, msg) == [type |-> type, msg |-> msg]
NoError == Error("", <<>>)
ValueError(msg) == Error("ValueError", msg)

\* the ValueError int(s) raises, NoError when it returns: the run is
\* scanned first, then its digits are counted against the limit, then the
\* rest of the string is looked at
IntError(s) ==
  LET b == IntBody(s)
      r == IntRun(b)
  IN IF ~RunWellFormed(r) THEN ValueError(MsgInvalidLiteral \o Repr200(s))
     ELSE IF DigitCount(r) > IntMaxStrDigits
     THEN ValueError(MsgExceedsLimit(IntMaxStrDigits, DigitCount(r)))
     ELSE IF Len(r) # Len(b) THEN ValueError(MsgInvalidLiteral \o Repr200(s))
     ELSE NoError

\* int(s) returns
IsIntLiteral(s) == IntError(s) = NoError

\* str(int(s)) for a literal s, computed on its digits so that the value is
\* not limited by the width of the model's integers: the digits in ASCII
\* without underscores and leading zeros, after "-" for a negative value
StrOfInt(s) ==
  LET t == IntStrip(s)
      d == SelectSeq(IntBody(s), LAMBDA c : c # 95)
      a == [i \in 1..Len(d) |-> 48 + DigitVal(d[i])]
  IN IF \A i \in 1..Len(a) : a[i] = 48 THEN <<48>>
     ELSE LET k == CHOOSE i \in 1..Len(a) : a[i] # 48 /\ \A j \in 1..(i - 1) : a[j] = 48
          IN (IF t[1] = 45 THEN <<45>> ELSE <<>>) \o SubSeq(a, k, Len(a))

(***************************************************************************)
(* Exceptions and results.                                                 *)
(***************************************************************************)
MissingGoogleKeyError == Error("RuntimeError", MsgNoGoogleKey)
NoUsableModelError == Error("RuntimeError", MsgNoUsableModel)
MissingStabilityKeyError == Error("RuntimeError", MsgNoStabilityKey)
\* the f-string of line 115: prefix, status code, a space, the body text
StabilityError(status_code, text) ==
  Error("RuntimeError", MsgStabilityFailed \o IntToStr(status_code) \o <<32>> \o text)

\* exceptions raised by the libraries the program calls
ConstructError(name) == Error("ConstructError", name)
ListModelsError == Error("ProviderError", <<108, 105, 115, 116, 95, 109, 111, 100, 101, 108, 115>>)
GenerateContentError == Error("ProviderError", <<103, 101, 110, 101, 114, 97, 116, 101, 95, 99, 111, 110, 116, 101, 110, 116>>)
PostError == Error("RequestException", <<112, 111, 115, 116>>)
\* Pillow's exceptions: Image.open on a body it cannot identify, the lazy
\* load of a body whose pixel data are cut short, and the PNG writer on a
\* mode it cannot write.  The texts stand for the library's.
UnidentifiedImageError == Error("UnidentifiedImageError", <<99, 97, 110, 110, 111, 116, 32, 105, 100, 101, 110, 116, 105, 102, 121, 32, 105, 109, 97, 103, 101, 32, 102, 105, 108, 101>>)
ImageLoadError == Error("OSError", <<105, 109, 97, 103, 101, 32, 102, 105, 108, 101, 32, 105, 115, 32, 116, 114, 117, 110, 99, 97, 116, 101, 100>>)
ImageSaveError == Error("OSError", <<99, 97, 110, 110, 111, 116, 32, 119, 114, 105, 116, 101, 32, 109, 111, 100, 101, 32, 70, 32, 97, 115, 32, 80, 78, 71>>)

Call(op, arg) == [op |-> op, arg |-> arg]

\* outcome of a function: its return value or exception, the calls it made
\* on the libraries, and the exceptions raised inside it (caught or not)
Result(kind, val, err, calls, raised) ==
  [kind |-> kind, val |-> val, err |-> err, calls |-> calls, raised |-> raised]
Return(val, calls, raised) == Result("return", val, NoError, calls, raised)
Raise(err, calls, raised) == Result("raise", <<>>, err, calls, raised)
NotCalled == Result("none", <<>>, NoError, <<>>, <<>>)

CallCount(calls, op) == Cardinality({i \in 1..Len(calls) : calls[i].op = op})
ProviderOps == {"configure", "GenerativeModel", "list_models", "generate_content", "post"}

(***************************************************************************)
(* The text-generation provider as the program sees it.  An environment    *)
(* fixes what the google.generativeai library does during one request:     *)
(*   constructs : the names for which genai.GenerativeModel(name) succeeds *)
(*   listing    : the models genai.list_models() enumerates, in order      *)
(*   cut1, cut2 : how many models the first / second list_models() call    *)
(*                yields before it raises (NoCut: it completes)            *)
(*   resp       : what model.generate_content(prompt) does                 *)
(***************************************************************************)
NoCut == -1

Model(name, has_methods, methods) ==
  [name |-> name, has_methods |-> has_methods, supported_generation_methods |-> methods]

Response(raises, has_text, text) == [raises |-> raises, has_text |-> has_text, text |-> text]
NoResponse == Response(FALSE, FALSE, None)

GeminiEnv(constructs, listing, cut1, cut2, resp) ==
  [constructs |-> constructs, listing |-> listing, cut1 |-> cut1, cut2 |-> cut2, resp |-> resp]

\* the models one list_models() call yields
Yielded(listing, cut) == IF cut = NoCut THEN listing ELSE SubSeq(listing, 1, cut)

\* getattr(m, "supported_generation_methods", [])
Methods(m) == IF m.has_methods THEN m.supported_generation_methods ELSE <<>>

\* the capability test dropped
SupportsAnything(m) == TRUE
\* "generateContent" in methods
Supports(m) == \E i \in 1..Len(Methods(m)) : Methods(m)[i] = GenerateContent

\* "gemini-1.5" in m.name
Tagged(m) == Contains(m.name, VersionTag)

\* prefer_list or [defaults]
EffectivePreferList(prefer_list) ==
  IF prefer_list = NoneList \/ prefer_list = <<>> THEN DefaultPreferList ELSE prefer_list

\* the scan that keeps going after a success
LastConstructible(list, constructs) ==
  IF \E i \in 1..Len(list) : list[i] \in constructs
  THEN CHOOSE i \in 1..Len(list) :
         list[i] \in constructs /\ \A j \in (i + 1)..Len(list) : list[j] \notin constructs
  ELSE 0
\* index of the entry the first loop returns, 0 when every construction fails
FirstConstructible(list, constructs) ==
  IF \E i \in 1..Len(list) : list[i] \in constructs
  THEN CHOOSE i \in 1..Len(list) :
         list[i] \in constructs /\ \A j \in 1..(i - 1) : list[j] \notin constructs
  ELSE 0

\* the first listing loop without its version-tag preference
NoTaggedPreference(items) == 0
\* index of the model the first listing loop returns, 0 when it returns none
FirstTaggedSupporting(items) ==
  IF \E i \in 1..Len(items) : Supports(items[i]) /\ Tagged(items[i])
  THEN CHOOSE i \in 1..Len(items) :
         /\ Supports(items[i]) /\ Tagged(items[i])
         /\ \A j \in 1..(i - 1) : ~(Supports(items[j]) /\ Tagged(items[j]))
  ELSE 0

\* index of the model the second listing loop returns, 0 when it returns none
FirstSupporting(items) ==
  IF \E i \in 1..Len(items) : Supports(items[i])
  THEN CHOOSE i \in 1..Len(items) :
         Supports(items[i]) /\ \A j \in 1..(i - 1) : ~Supports(items[j])
  ELSE 0

\* the fallback without its second listing loop
FallbackTaggedOnly(env) ==
  LET y1 == Yielded(env.listing, env.cut1)
      t == FirstTaggedSupporting(y1)
  IN IF t # 0 THEN Return(y1[t].name, <<Call("list_models", <<>>)>>, <<>>)
     ELSE Raise(NoUsableModelError, <<Call("list_models", <<>>)>>,
                IF env.cut1 # NoCut THEN <<ListModelsError>> ELSE <<>>)
\* the dynamic fallback: two passes over list_models() inside one try block,
\* then the no-usable-model error
Fallback(env) ==
  LET y1 == Yielded(env.listing, env.cut1)
      t == FirstTaggedSupporting(y1)
      y2 == Yielded(env.listing, env.cut2)
      s == FirstSupporting(y2)
      one == <<Call("list_models", <<>>)>>
      two == <<Call("list_models", <<>>), Call("list_models", <<>>)>>
  IN IF t # 0 THEN Return(y1[t].name, one, <<>>)
     ELSE IF env.cut1 # NoCut THEN Raise(NoUsableModelError, one, <<ListModelsError>>)
     ELSE IF s # 0 THEN Return(y2[s].name, two, <<>>)
     ELSE Raise(NoUsableModelError, two,
                IF env.cut2 # NoCut THEN <<ListModelsError>> ELSE <<>>)

\* the outcome r of a later step of a function that has already made the
\* given calls and caught the given exceptions
After(calls, raised, r) == [r EXCEPT !.calls = calls \o @, !.raised = raised \o @]

\* _pick_gemini_model(api_key, prefer_list)
PickGeminiModel(api_key, prefer_list, env) ==
  LET list == EffectivePreferList(prefer_list)
      i == FirstConstructible(list, env.constructs)
      tried == IF i = 0 THEN list ELSE SubSeq(list, 1, i)
      failed == IF i = 0 THEN list ELSE SubSeq(list, 1, i - 1)
      calls == <<Call("configure", api_key)>>
                 \o [j \in 1..Len(tried) |-> Call("GenerativeModel", tried[j])]
      raised == [j \in 1..Len(failed) |-> ConstructError(failed[j])]
  IN IF i # 0 THEN Return(list[i], calls, raised)
     ELSE After(calls, raised, Fallback(env))

\* the credential test dropped
KeyNeverMissing(key) == FALSE
\* "not GOOGLE_API_KEY" / "not STABILITY_API_KEY"
KeyMissing(key) == key = EmptyStr

\* getattr(resp, "text", "") or ""
ResponseText(resp) == Or(IF resp.has_text THEN resp.text ELSE EmptyStr, EmptyStr)

\* the generation call with its error re-raised as a RuntimeError
GenerateWrapped(prompt, resp) ==
  IF resp.raises
  THEN Raise(Error("RuntimeError", GenerateContentError.msg),
             <<Call("generate_content", prompt)>>, <<GenerateContentError>>)
  ELSE Return(Strip(ResponseText(resp)), <<Call("generate_content", prompt)>>, <<>>)
\* model.generate_content(prompt) and the text taken from its response
Generate(prompt, resp) ==
  IF resp.raises
  THEN Raise(GenerateContentError, <<Call("generate_content", prompt)>>, <<GenerateContentError>>)
  ELSE Return(Strip(ResponseText(resp)), <<Call("generate_content", prompt)>>, <<>>)

\* lines 85-88: the handle on the selected model, then the generation call;
\* done is what lines 81-84 did and sel the outcome of the selection
UseModel(prompt, env, done, sel) ==
  IF sel.val \notin env.constructs
  THEN Raise(ConstructError(sel.val), done \o <<Call("GenerativeModel", sel.val)>>,
             sel.raised \o <<ConstructError(sel.val)>>)
  ELSE After(done \o <<Call("GenerativeModel", sel.val)>>, sel.raised,
             Generate(prompt, env.resp))

\* lines 84-88; conf is the call of line 81
SelectThenUse(prompt, env, conf, sel) ==
  IF sel.kind = "raise" THEN Raise(sel.err, conf \o sel.calls, sel.raised)
  ELSE UseModel(prompt, env, conf \o sel.calls, sel)

\* gemini_chat(prompt, model_name), reading the module global GOOGLE_API_KEY
GeminiChat(key, prompt, model_name, env) ==
  IF KeyMissing(key) THEN Raise(MissingGoogleKeyError, <<>>, <<>>)
  ELSE SelectThenUse(prompt, env, <<Call("configure", key)>>,
                     IF Truthy(model_name) THEN Return(model_name, <<>>, <<>>)
                     ELSE PickGeminiModel(key, NoneList, env))

(***************************************************************************)
(* The image provider: what requests.post does during one request.         *)
(***************************************************************************)
\* content is r.content, the bytes of the body; text is r.text, the string
\* requests decodes them to under the charset of the answer
Http(raises, status_code, content, text) ==
  [raises |-> raises, status_code |-> status_code, content |-> content, text |-> text]
NoHttp == Http(FALSE, 0, <<>>, <<>>)

\* What Pillow does with the body of the answer.  Image.open reads the header
\* only: it identifies the format and returns an image whose pixel data are
\* still unread, or raises.  The data are read when the image is first used
\* (loads), and img.save(buf, format="PNG") writes the loaded image or
\* raises (saves).
Pil(opens, loads, saves) == [opens |-> opens, loads |-> loads, saves |-> saves]
NoPil == Pil(FALSE, FALSE, FALSE)

\* the object Image.open(io.BytesIO(content)) returns: the body behind it is
\* not decoded yet
Image(content, pil) == [fp |-> content, loads |-> pil.loads, saves |-> pil.saves]

\* the status test widened to every 2xx code
StatusIs2xx(status_code) == status_code >= 200 /\ status_code < 300
\* r.status_code == 200
StatusIsOk(status_code) == status_code = StatusOK

\* the least element of a set of indices
First(S) == CHOOSE i \in S : \A j \in S : i <= j

\* the ValueError of "width, height = [int(x) for x in parts]", NoError when
\* both are assigned; failing is the set of indices of the parts int()
\* rejects, and the comprehension stops at the first of them
UnpackError(parts, failing) ==
  IF failing # {} THEN IntError(parts[First(failing)])
  ELSE IF Len(parts) < 2
  THEN ValueError(MsgNotEnoughValues(Len(parts)))
  ELSE IF Len(parts) > 2 THEN ValueError(MsgTooManyValues)
  ELSE NoError

\* the ValueError line 98 raises for this size, NoError when it raises none
SizeError(size) ==
  UnpackError(Split(size, 120),
              {i \in 1..Len(Split(size, 120)) : ~IsIntLiteral(Split(size, 120)[i])})

SizeParses(size) == SizeError(size) = NoError

\* the multipart fields of the request
Files(prompt, size) ==
  [prompt |-> prompt,
   mode |-> TextToImage,
   output_format |-> Png,
   width |-> StrOfInt(Split(size, 120)[1]),
   height |-> StrOfInt(Split(size, 120)[2])]

\* lines 112-115 on the answer to the request post
Answer(http, pil, post) ==
  IF http.raises THEN Raise(PostError, post, <<PostError>>)
  ELSE IF StatusIsOk(http.status_code)
       THEN IF pil.opens
            THEN Return(Image(http.content, pil),
                        post \o <<Call("Image.open", http.content)>>, <<>>)
            ELSE Raise(UnidentifiedImageError,
                       post \o <<Call("Image.open", http.content)>>,
                       <<UnidentifiedImageError>>)
  ELSE Raise(StabilityError(http.status_code, http.text), post, <<>>)

\* lines 100-115: the request and its answer
PostImage(key, prompt, size, http, pil) ==
  Answer(http, pil,
         <<Call("post", [url |-> StabilityUrl, Authorization |-> Bearer \o key,
                         files |-> Files(prompt, size), timeout |-> PostTimeout])>>)

\* lines 98-115; e is the outcome of line 98
ParseThenPost(key, prompt, size, http, pil, e) ==
  IF e # NoError THEN Raise(e, <<>>, <<e>>) ELSE PostImage(key, prompt, size, http, pil)

\* stability_generate_image(prompt, size), reading STABILITY_API_KEY
StabilityGenerateImage(key, prompt, size, http, pil) ==
  IF KeyMissing(key) THEN Raise(MissingStabilityKeyError, <<>>, <<>>)
  ELSE ParseThenPost(key, prompt, size, http, pil, SizeError(size))
(***************************************************************************)
(* Canonical environments: the outcome of a library call that a request    *)
(* never makes is not part of that request, so it is left at its default.  *)
(***************************************************************************)

ListingEnv(listing, cut1, cut2) == [listing |-> listing, cut1 |-> cut1, cut2 |-> cut2]
NoListing == ListingEnv(<<>>, NoCut, NoCut)

SecondListCall(listing, cut1) ==
  cut1 = NoCut /\ FirstTaggedSupporting(Yielded(listing, cut1)) = 0

SeqsUpTo(S, n) == UNION {[1..k -> S] : k \in 0..n}

ListingEnvs(models, n) ==
  {ListingEnv(l, c[1], c[2]) :
     <<l, c>> \in {p \in SeqsUpTo(models, n) \X ((-1..n) \X (-1..n)) :
                    /\ p[2][1] <= Len(p[1]) /\ p[2][2] <= Len(p[1])
                    /\ (~SecondListCall(p[1], p[2][1]) => p[2][2] = NoCut)}}

\* environments of one gemini_chat call, drawn from the given choices
ChatEnvs(key, prompt, model_name, Cs, Ls, Rs) ==
  LET Constructed(calls) ==
        {calls[i].arg : i \in {j \in 1..Len(calls) : calls[j].op = "GenerativeModel"}}
      Try(c, le, resp) ==
        GeminiChat(key, prompt, model_name, GeminiEnv(c, le.listing, le.cut1, le.cut2, resp))
      ListChoices(c) ==
        IF CallCount(Try(c, NoListing, NoResponse).calls, "list_models") > 0
        THEN Ls ELSE {NoListing}
      RespChoices(c, le) ==
        IF CallCount(Try(c, le, NoResponse).calls, "generate_content") > 0
        THEN Rs ELSE {NoResponse}
  IN UNION {UNION {{GeminiEnv(c, le.listing, le.cut1, le.cut2, resp) : resp \in RespChoices(c, le)} :
                     le \in {x \in ListChoices(c) :
                               c \subseteq Constructed(Try(c, x, NoResponse).calls)}} :
              c \in Cs}

\* environments of one _pick_gemini_model call: the provider's catalogue is
\* there whether or not the call consults it
PickEnvs(prefer_list, Cs, Ls) ==
  LET list == EffectivePreferList(prefer_list)
      names == {list[i] : i \in 1..Len(list)}
  IN UNION {{GeminiEnv(c, le.listing, le.cut1, le.cut2, NoResponse) :
               le \in IF FirstConstructible(list, c) = 0 THEN Ls
                      ELSE {x \in Ls : x.cut1 = NoCut /\ x.cut2 = NoCut}} :
              c \in {x \in Cs : x \subseteq names}}

\* environments of one stability_generate_image call
HttpEnvs(key, size, Hs) ==
  IF KeyMissing(key) \/ ~SizeParses(size) THEN {NoHttp} ELSE Hs

\* what Pillow does with the body of this answer, as the table Bs of bodies
\* gives it
PilEnv(http, Bs) == (CHOOSE b \in Bs : b.content = http.content).pil

(***************************************************************************)
(* Configuration loader (module level, lines 15-16).                       *)
(***************************************************************************)
\* os.getenv of a variable that is not set

\* os.getenv("GOOGLE_API_KEY") or os.getenv("GEMINI_API_KEY") or ""
LoadGoogleKey(google, gemini) == Or(Or(google, gemini), EmptyStr)

\* os.getenv("STABILITY_API_KEY", "")
LoadStabilityKey(stability) == IF stability = None THEN EmptyStr ELSE stability

(***************************************************************************)
(* The pages.  A run is what one execution of a submit handler did and     *)
(* rendered.                                                               *)
(***************************************************************************)
\* the entries of the sidebar menu (line 22); the first is the default
\* literal 1 of line 22: '\U0001f3e0 \u7c21\u4ecb'
PageIntro == <<127968, 32, 31777, 20171>>
\* literal 2 of line 22: '\U0001f4ac \u804a\u5929\uff08Gemini\uff09'
PageChat == <<128172, 32, 32842, 22825, 65288, 71, 101, 109, 105, 110, 105, 65289>>
\* literal 3 of line 22: '\U0001f3a8 \u751f\u5716\uff08Stability\uff09'
PageImage == <<127912, 32, 29983, 22294, 65288, 83, 116, 97, 98, 105, 108, 105, 116, 121, 65289>>
Pages == {PageIntro, PageChat, PageImage}

Ui(kind, text, err, image) == [kind |-> kind, text |-> text, err |-> err, image |-> image]
NoUi == Ui("none", <<>>, NoError, <<>>)
Warning(text) == Ui("warning", text, NoError, <<>>)
Success(text) == Ui("success", text, NoError, <<>>)
\* st.error(f"...{e}") of lines 161 and 188
ErrorBox(e) == Ui("error", MsgErrorOccurred \o e.msg, e, <<>>)
\* lines 181-186: st.image(img) under its caption, then the download button
\* whose data are buf.getvalue() after img.save(buf, format="PNG"): the
\* image written anew as PNG, not the bytes of the answer
ImageBox(img) ==
  Ui("image",
     <<83, 116, 97, 98, 105, 108, 105, 116, 121, 32, 29983, 25104, 32080, 26524>>,                                 \* caption
     NoError,
     [img |-> img,
      download |->
        [label |-> <<19979, 36617, 22294, 29255, 65288, 80, 78, 71, 65289>>,
         data |-> [format |-> <<80, 78, 71>>, of |-> img],
         file_name |-> <<115, 116, 97, 98, 105, 108, 105, 116, 121, 46, 112, 110, 103>>,             \* "stability.png"
         mime |-> <<105, 109, 97, 103, 101, 47, 112, 110, 103>>]])                \* "image/png"
\* an exception leaving the handler
Uncaught(e) == Ui("uncaught", <<>>, e, <<>>)

Run(handler, prompt, model, size, env, http, pil, r, ui) ==
  [handler |-> handler, prompt |-> prompt, model |-> model, size |-> size,
   env |-> env, http |-> http, pil |-> pil, r |-> r, ui |-> ui]
NoEnv == GeminiEnv({}, <<>>, NoCut, NoCut, NoResponse)
NoRun == Run("none", <<>>, <<>>, <<>>, NoEnv, NoHttp, NoPil, NotCalled, NoUi)

\* the prompt test without strip()
IsEmpty(s) == s = EmptyStr
\* "not user_input.strip()" / "not prompt.strip()"
IsBlank(s) == Strip(s) = EmptyStr

\* a handler that catches RuntimeError only
CatchesRuntimeError(e) == e.type = "RuntimeError"
\* "except Exception as e": every class the program or its libraries raise
Catches(e) ==
  e.type \in {"RuntimeError", "ConstructError", "ProviderError", "RequestException",
              "ValueError", "UnidentifiedImageError", "OSError"}

\* lines 156-161: what the chat handler renders for the outcome r of
\* gemini_chat
ChatUi(r) ==
  IF r.kind = "raise"
  THEN IF Catches(r.err) THEN ErrorBox(r.err) ELSE Uncaught(r.err)
  ELSE IF Truthy(r.val) THEN Success(r.val)
  ELSE Warning(MsgNoReply)

ChatRun(user_input, manual_model, env, r) ==
  Run("chat", user_input, manual_model, <<>>, env, NoHttp, NoPil, r, ChatUi(r))

\* the body of 'if st.button(<send>)' on the chat page
ChatPage(key, user_input, manual_model, env) ==
  IF IsBlank(user_input)
  THEN Run("chat", user_input, manual_model, <<>>, env, NoHttp, NoPil, NotCalled,
           Warning(MsgEnterMessage))
  ELSE ChatRun(user_input, manual_model, env,
               GeminiChat(key, user_input, Or(Strip(manual_model), None), env))

\* what the try block of lines 179-188 renders once it has reached an
\* exception e
Except(e) == IF Catches(e) THEN ErrorBox(e) ELSE Uncaught(e)

\* lines 179-188: what the image handler renders for the outcome r of
\* stability_generate_image.  st.image reads the pixel data of the image and
\* raises when they do not load; once the image is shown, img.save raises
\* when the image cannot be written as PNG, and the error message is
\* rendered below the image.
ImageUi(r) ==
  IF r.kind = "raise" THEN Except(r.err)
  ELSE IF ~r.val.loads THEN Except(ImageLoadError)
  ELSE IF ~r.val.saves
       THEN [Except(ImageSaveError) EXCEPT !.image = [img |-> r.val, download |-> <<>>]]
  ELSE ImageBox(r.val)

ImageRun(prompt, size, http, pil, r) ==
  Run("image", prompt, <<>>, size, NoEnv, http, pil, r, ImageUi(r))

\* the body of 'if st.button(<generate image>)' on the image page
ImagePage(key, prompt, size, http, pil) ==
  IF IsBlank(prompt)
  THEN Run("image", prompt, <<>>, size, NoEnv, http, pil, NotCalled,
           Warning(MsgEnterDescription))
  ELSE ImageRun(prompt, size, http, pil,
                StabilityGenerateImage(key, prompt, size, http, pil))
(***************************************************************************)
(* Input spaces.                                                           *)
(***************************************************************************)
EnvGoogle == {None, EmptyStr, <<107, 101, 121, 45, 65>>}
EnvGemini == {None, EmptyStr, <<107, 101, 121, 45, 66>>}
EnvStability == {None, EmptyStr, <<107, 101, 121, 45, 83>>}

\* names the provider may list besides the defaults
\* 'models/gemini-pro'
NameGeminiPro == <<109, 111, 100, 101, 108, 115, 47, 103, 101, 109, 105, 110, 105, 45, 112, 114, 111>>
\* 'models/gemini-1.0-pro'
NameGemini10 == <<109, 111, 100, 101, 108, 115, 47, 103, 101, 109, 105, 110, 105, 45, 49, 46, 48, 45, 112, 114, 111>>
\* 'models/embedding-001'
NameEmbedding == <<109, 111, 100, 101, 108, 115, 47, 101, 109, 98, 101, 100, 100, 105, 110, 103, 45, 48, 48, 49>>
\* 'models/gemini-1.5-vision'
NameVision15 == <<109, 111, 100, 101, 108, 115, 47, 103, 101, 109, 105, 110, 105, 45, 49, 46, 53, 45, 118, 105, 115, 105, 111, 110>>

\* what list_models() may enumerate: a tagged and two untagged models that
\* support generateContent, one that does not, one without the attribute
ModelVision15 == Model(NameVision15, TRUE, <<GenerateContent, <<99, 111, 117, 110, 116, 84, 111, 107, 101, 110, 115>>>>)
ModelGeminiPro == Model(NameGeminiPro, TRUE, <<GenerateContent>>)
ModelGemini10 == Model(NameGemini10, TRUE, <<<<99, 111, 117, 110, 116, 84, 111, 107, 101, 110, 115>>, GenerateContent>>)
ModelEmbedding == Model(NameEmbedding, TRUE, <<<<101, 109, 98, 101, 100, 67, 111, 110, 116, 101, 110, 116>>>>)
ModelFlash8b == Model(NameFlash8b, FALSE, <<>>)
CatalogModels == {ModelVision15, ModelGeminiPro, ModelGemini10, ModelEmbedding, ModelFlash8b}

AllNames == {NameFlash, NameFlash8b, NamePro, NameGeminiPro, NameGemini10, NameEmbedding, NameVision15}
PreferNames == {NameFlash, NamePro, NameGeminiPro}
PreferLists == SeqsUpTo(PreferNames, MaxPreferLen) \cup {NoneList}

Responses ==
  {Response(TRUE, FALSE, None), Response(FALSE, FALSE, None), Response(FALSE, TRUE, None)}
    \cup {Response(FALSE, TRUE, t) : t \in SeqsUpTo({32, 10, 97}, MaxTextLen)}
    \cup {Response(FALSE, TRUE, <<11, 104, 105, 31>>), Response(FALSE, TRUE, <<12288>>)}


\* bodies of the answer: a PNG file of one red pixel; the same file cut
\* inside its image data; a TIFF file of one 32-bit float sample, a mode the
\* PNG writer does not take; a JSON document; nothing
PngFile ==
  <<137, 80, 78, 71, 13, 10, 26, 10, 0, 0, 0, 13, 73, 72, 68, 82, 0, 0, 0, 1,
    0, 0, 0, 1, 8, 2, 0, 0, 0, 144, 119, 83, 222, 0, 0, 0, 12, 73, 68, 65, 84,
    120, 156, 99, 248, 207, 192, 0, 0, 3, 1, 1, 0, 201, 254, 146, 239, 0, 0,
    0, 0, 73, 69, 78, 68, 174, 66, 96, 130>>
CutPngFile ==
  <<137, 80, 78, 71, 13, 10, 26, 10, 0, 0, 0, 13, 73, 72, 68, 82, 0, 0, 0, 1,
    0, 0, 0, 1, 8, 2, 0, 0, 0, 144, 119, 83, 222, 0, 0, 0, 12, 73, 68, 65, 84,
    120, 156, 99, 248>>
FloatTiffFile ==
  <<73, 73, 42, 0, 8, 0, 0, 0, 10, 0, 0, 1, 3, 0, 1, 0, 0, 0, 1, 0, 0, 0, 1,
    1, 3, 0, 1, 0, 0, 0, 1, 0, 0, 0, 2, 1, 3, 0, 1, 0, 0, 0, 32, 0, 0, 0, 3,
    1, 3, 0, 1, 0, 0, 0, 1, 0, 0, 0, 6, 1, 3, 0, 1, 0, 0, 0, 1, 0, 0, 0, 17,
    1, 4, 0, 1, 0, 0, 0, 134, 0, 0, 0, 21, 1, 3, 0, 1, 0, 0, 0, 1, 0, 0, 0,
    22, 1, 3, 0, 1, 0, 0, 0, 1, 0, 0, 0, 23, 1, 4, 0, 1, 0, 0, 0, 4, 0, 0, 0,
    83, 1, 3, 0, 1, 0, 0, 0, 3, 0, 0, 0, 0, 0, 0, 0, 0, 0, 0, 63>>
\* Each body with r.text, the text requests decodes it to, and with what
\* Pillow does with it.  The decoding belongs to requests and follows the
\* Content-Type of the answer, so the text is given with the body: the three
\* files as answers declared charset=ISO-8859-1, where every byte is the
\* code point of the same number; the JSON documents as application/json
\* answers, decoded as UTF-8.
Bodies ==
  {[content |-> PngFile, text |-> PngFile, pil |-> Pil(TRUE, TRUE, TRUE)],
   [content |-> CutPngFile, text |-> CutPngFile, pil |-> Pil(TRUE, FALSE, FALSE)],
   [content |-> FloatTiffFile, text |-> FloatTiffFile, pil |-> Pil(TRUE, TRUE, FALSE)],
   \* '{"err":"\u932f"}': three bytes of the body are one character of the text
   [content |-> <<123, 34, 101, 114, 114, 34, 58, 34, 233, 140, 175, 34, 125>>,
    text |-> <<123, 34, 101, 114, 114, 34, 58, 34, 37679, 34, 125>>, pil |-> NoPil],
   [content |-> <<123, 125>>, text |-> <<123, 125>>, pil |-> NoPil],
   [content |-> <<>>, text |-> <<>>, pil |-> NoPil]}
HttpChoices ==
  {Http(TRUE, 0, <<>>, <<>>)}
    \cup {Http(FALSE, s, b.content, b.text) : s \in {200, 201, 204, 400, 401, 500},
                                              b \in Bodies}

\* arguments of the direct calls
FnPrompts == {<<>>, <<32>>, <<12288>>, <<104, 105>>}
FnSizes ==
  SizeOptions \cup {<<53, 49, 50>>, <<97, 120, 98>>, <<48, 56, 120, 32, 56>>, <<49, 120, 50, 120, 51>>, <<49, 95, 48, 120, 50, 95, 48>>, <<49, 95, 95, 48, 120, 49>>,
                  <<1635, 120, 52>>, <<49, 120, 65297, 65298>>, <<11, 55, 120, 49>>, <<28, 55, 120, 49>>,
                  <<49, 120, 39, 12288, 34, 98>>, <<45, 48, 48, 55, 120, 57, 57, 57, 57, 57, 57, 57, 57, 57, 57, 57>>,
                  [i \in 1..IntMaxStrDigits |-> 49] \o <<120, 49>>,
                  [i \in 1..(IntMaxStrDigits + 1) |-> 49] \o <<120, 49>>}

\* what the user types and what the providers do in the page model
UIPrompts == {<<>>, <<32>>, <<10, 32>>, <<11>>, <<12288>>, <<104, 105>>, <<32, 104, 105, 10>>}
UIListings ==
  {ListingEnv(<<>>, NoCut, NoCut),
   ListingEnv(<<ModelGeminiPro>>, NoCut, NoCut),
   ListingEnv(<<ModelGeminiPro>>, 0, NoCut),
   ListingEnv(<<ModelGeminiPro>>, NoCut, 0),
   ListingEnv(<<ModelEmbedding, ModelGeminiPro, ModelVision15>>, NoCut, NoCut),
   ListingEnv(<<ModelEmbedding, ModelGeminiPro, ModelVision15>>, 2, NoCut)}
UIResponses ==
  {Response(TRUE, FALSE, None), Response(FALSE, FALSE, None), Response(FALSE, TRUE, None),
   Response(FALSE, TRUE, <<>>), Response(FALSE, TRUE, <<32, 10>>),
   Response(FALSE, TRUE, <<11, 111, 107, 31>>),
   Response(FALSE, TRUE, <<32, 97, 110, 115, 119, 101, 114, 32>>)}
UIHttp ==
  {Http(TRUE, 0, <<>>, <<>>),
   Http(FALSE, 201, PngFile, PngFile),
   Http(FALSE, 400, <<123, 125>>, <<123, 125>>),
   Http(FALSE, 500, <<>>, <<>>)}
    \cup {Http(FALSE, 200, b.content, b.text) : b \in Bodies}

(***************************************************************************)
(* The application: pages and submit handlers.                             *)
(***************************************************************************)
FnCall(fn, prompt, model_name, prefer_list, size, env, http, pil, done, r) ==
  [fn |-> fn, prompt |-> prompt, model_name |-> model_name, prefer_list |-> prefer_list,
   size |-> size, env |-> env, http |-> http, pil |-> pil, done |-> done, r |-> r]
NoCall == FnCall("none", <<>>, None, NoneList, <<>>, NoEnv, NoHttp, NoPil, FALSE, NotCalled)

\* the credentials the loader produces from the process environment
LoadKeys ==
  /\ GOOGLE_API_KEY \in {LoadGoogleKey(google, gemini) : google \in EnvGoogle, gemini \in EnvGemini}
  /\ STABILITY_API_KEY \in {LoadStabilityKey(stability) : stability \in EnvStability}

Init ==
  /\ LoadKeys
  /\ choice = PageIntro
  /\ run = NoRun
  /\ call = NoCall

\* the user picks a page in the sidebar; the script reruns and renders it
SelectPage ==
  \E c \in Pages :
    /\ choice' = c
    /\ run' = NoRun
    /\ UNCHANGED <<GOOGLE_API_KEY, STABILITY_API_KEY, call>>

\* the user presses the submit control of the chat page
ChatSubmit ==
  /\ choice = PageChat
  /\ \E user_input \in UIPrompts,
        manual_model \in {<<>>, <<11>>, <<32>> \o NameGeminiPro \o <<12288>>} :
       \E env \in IF IsBlank(user_input)
                  THEN {NoEnv}
                  ELSE ChatEnvs(GOOGLE_API_KEY, user_input, Or(Strip(manual_model), None),
                                {{}, {NameFlash}, {NamePro}, {NameFlash, NameFlash8b, NamePro},
                                 {NameGeminiPro}, {NameVision15}},
                                UIListings, UIResponses) :
         run' = ChatPage(GOOGLE_API_KEY, user_input, manual_model, env)
  /\ UNCHANGED <<GOOGLE_API_KEY, STABILITY_API_KEY, choice, call>>

\* the user presses the submit control of the image page
ImageSubmit ==
  /\ choice = PageImage
  /\ \E prompt \in UIPrompts, size \in SizeOptions :
       \E http \in IF IsBlank(prompt)
                   THEN {NoHttp}
                   ELSE HttpEnvs(STABILITY_API_KEY, size, UIHttp) :
         run' = ImagePage(STABILITY_API_KEY, prompt, size, http, PilEnv(http, Bodies))
  /\ UNCHANGED <<GOOGLE_API_KEY, STABILITY_API_KEY, choice, call>>

Next == SelectPage \/ ChatSubmit \/ ImageSubmit

Spec == Init /\ [][Next]_vars

(***************************************************************************)
(* The client functions called directly: the arguments and the providers'  *)
(* behaviour are drawn initially, one step applies the function.  The key  *)
(* the called function does not read is left empty.                        *)
(***************************************************************************)
PickArgs ==
  /\ STABILITY_API_KEY = EmptyStr
  /\ \E prefer_list \in PreferLists :
       \E env \in PickEnvs(prefer_list, SUBSET PreferNames \cup SUBSET {NameFlash, NameFlash8b, NamePro},
                           ListingEnvs(CatalogModels, MaxListing)) :
         call = FnCall("pick", <<>>, None, prefer_list, <<>>, env, NoHttp, NoPil, FALSE,
                        NotCalled)

ChatArgs ==
  /\ STABILITY_API_KEY = EmptyStr
  /\ \E prompt \in FnPrompts, model_name \in {None, EmptyStr, NameGeminiPro} :
       \E env \in ChatEnvs(GOOGLE_API_KEY, prompt, model_name, SUBSET AllNames,
                           ListingEnvs(CatalogModels, MaxChatListing), Responses) :
         call = FnCall("chat", prompt, model_name, NoneList, <<>>, env, NoHttp, NoPil, FALSE,
                        NotCalled)

ImageArgs ==
  /\ GOOGLE_API_KEY = EmptyStr
  /\ \E prompt \in FnPrompts, size \in FnSizes :
       \E http \in HttpEnvs(STABILITY_API_KEY, size, HttpChoices) :
         call = FnCall("image", prompt, None, NoneList, size, NoEnv, http,
                        PilEnv(http, Bodies), FALSE, NotCalled)

FnInit ==
  /\ LoadKeys
  /\ choice = PageIntro
  /\ run = NoRun
  /\ (PickArgs \/ ChatArgs \/ ImageArgs)

CallPick ==
  /\ call.fn = "pick" /\ ~call.done
  /\ call' = [call EXCEPT !.done = TRUE,
                          !.r = PickGeminiModel(GOOGLE_API_KEY, call.prefer_list, call.env)]
  /\ UNCHANGED <<GOOGLE_API_KEY, STABILITY_API_KEY, choice, run>>

CallGeminiChat ==
  /\ call.fn = "chat" /\ ~call.done
  /\ call' = [call EXCEPT !.done = TRUE,
                          !.r = GeminiChat(GOOGLE_API_KEY, call.prompt, call.model_name, call.env)]
  /\ UNCHANGED <<GOOGLE_API_KEY, STABILITY_API_KEY, choice, run>>

CallStability ==
  /\ call.fn = "image" /\ ~call.done
  /\ call' = [call EXCEPT !.done = TRUE,
                          !.r = StabilityGenerateImage(STABILITY_API_KEY, call.prompt,
                                                       call.size, call.http, call.pil)]
  /\ UNCHANGED <<GOOGLE_API_KEY, STABILITY_API_KEY, choice, run>>

FnNext == CallPick \/ CallGeminiChat \/ CallStability

FnSpec == FnInit /\ [][FnNext]_vars

(***************************************************************************)
(* Properties.  Their vocabulary is defined here, independently of the     *)
(* operators that model the code.                                          *)
(***************************************************************************)
Done(fn) == call.fn = fn /\ call.done

\* the Unicode whitespace characters: White_Space plus the separators 28..31
Whitespace ==
  (9..13) \cup (28..32) \cup {133, 160, 5760} \cup (8192..8202)
    \cup {8232, 8233, 8239, 8287, 12288}
WhitespaceOnly(s) == \A i \in 1..Len(s) : s[i] \in Whitespace

\* v is t without its leading and trailing whitespace
IsTrimOf(v, t) ==
  /\ v # <<>> => ~WhitespaceOnly(<<v[1]>>) /\ ~WhitespaceOnly(<<v[Len(v)]>>)
  /\ \E i \in 0..Len(t) :
       /\ i + Len(v) <= Len(t)
       /\ SubSeq(t, i + 1, i + Len(v)) = v
       /\ WhitespaceOnly(SubSeq(t, 1, i))
       /\ WhitespaceOnly(SubSeq(t, i + Len(v) + 1, Len(t)))

ListsGenerateContent(m) ==
  m.has_methods /\ \E i \in 1..Len(m.supported_generation_methods) :
                     m.supported_generation_methods[i] = <<103, 101, 110, 101, 114, 97, 116, 101, 67, 111, 110, 116, 101, 110, 116>>
HasVersionTag(m) == \E i \in 1..(Len(m.name) - 9) : SubSeq(m.name, i, i + 9) = VersionTag
SupportingAt(l) == {i \in 1..Len(l) : ListsGenerateContent(l[i])}
TaggedSupportingAt(l) == {i \in SupportingAt(l) : HasVersionTag(l[i])}
Least(S) == CHOOSE i \in S : \A j \in S : i <= j

\* the entries the caller passed, and the entries the function tries
PassedEntries == IF call.prefer_list = NoneList THEN <<>> ELSE call.prefer_list
TriedEntries == IF PassedEntries = <<>> THEN <<NameFlash, NameFlash8b, NamePro>> ELSE PassedEntries
NoneConstructs(list) == \A i \in 1..Len(list) : list[i] \notin call.env.constructs
ListingCompletes == call.env.cut1 = NoCut /\ call.env.cut2 = NoCut

\* C1: with the credential absent, gemini_chat and stability_generate_image
\* fail with the missing-credential error and make no call at all on the
\* provider library or the HTTP transport, whatever their arguments.
C1_MissingCredentialBeforeAnyCall ==
  /\ Done("chat") /\ GOOGLE_API_KEY = <<>>
       => /\ call.r.kind = "raise"
          /\ call.r.err = MissingGoogleKeyError
          /\ \A i \in 1..Len(call.r.calls) : call.r.calls[i].op \notin ProviderOps
  /\ Done("image") /\ STABILITY_API_KEY = <<>>
       => /\ call.r.kind = "raise"
          /\ call.r.err = MissingStabilityKeyError
          /\ \A i \in 1..Len(call.r.calls) : call.r.calls[i].op \notin ProviderOps

C1_Witness ==
  /\ Done("chat") /\ GOOGLE_API_KEY = <<>>
  /\ call.prompt = <<104, 105>> /\ call.model_name = NameGeminiPro
  /\ call.r.kind = "raise" /\ call.r.calls = <<>>

\* C2: a submit with an empty or whitespace-only prompt never invokes
\* gemini_chat or stability_generate_image, makes no outbound call and
\* shows a warning.
C2_BlankPromptNeverInvokes ==
  run.handler \in {"chat", "image"} /\ WhitespaceOnly(run.prompt)
    => /\ run.r.kind = "none"
       /\ run.r.calls = <<>>
       /\ run.ui.kind = "warning"

C2_Witness ==
  /\ run.handler = "chat" /\ run.prompt = <<12288>>
  /\ GOOGLE_API_KEY # <<>>
  /\ run.r.kind = "none" /\ run.ui.kind = "warning"

\* C3 as stated: with an empty or fully-failing preference list and a
\* listing with exactly one model supporting generation, the selection
\* returns that model's name.
C3_Original ==
  /\ Done("pick") /\ NoneConstructs(PassedEntries) /\ ListingCompletes
  /\ Cardinality(SupportingAt(call.env.listing)) = 1
  => /\ call.r.kind = "return"
     /\ call.r.val = call.env.listing[Least(SupportingAt(call.env.listing))].name

\* C3 amended: an empty (or absent) preference list is replaced by the three
\* built-in defaults; when every entry actually tried fails to construct and
\* both listing calls complete and list exactly one model supporting
\* generation, the selection returns that model's name.
C3_FallbackSingleModel ==
  /\ Done("pick") /\ NoneConstructs(TriedEntries) /\ ListingCompletes
  /\ Cardinality(SupportingAt(call.env.listing)) = 1
  => /\ call.r.kind = "return"
     /\ call.r.val = call.env.listing[Least(SupportingAt(call.env.listing))].name

C3_Witness ==
  /\ Done("pick") /\ call.prefer_list = <<>> /\ call.env.constructs = {}
  /\ call.env.listing = <<ModelEmbedding, ModelGeminiPro>> /\ ListingCompletes
  /\ call.r.kind = "return" /\ call.r.val = NameGeminiPro

\* C4: the selection returns the first entry, in preference-list order,
\* that constructs, and then never calls the model listing.
C4_FirstConstructibleNoListing ==
  Done("pick") /\ ~NoneConstructs(TriedEntries)
    => /\ call.r.kind = "return"
       /\ \E i \in 1..Len(TriedEntries) :
            /\ TriedEntries[i] \in call.env.constructs
            /\ \A j \in 1..(i - 1) : TriedEntries[j] \notin call.env.constructs
            /\ call.r.val = TriedEntries[i]
       /\ CallCount(call.r.calls, "list_models") = 0

C4_Witness ==
  /\ Done("pick") /\ call.prefer_list = <<NameFlash, NameGeminiPro>>
  /\ call.env.constructs = {NameGeminiPro}
  /\ call.r.kind = "return" /\ call.r.val = NameGeminiPro
  /\ CallCount(call.r.calls, "list_models") = 0

\* C5 as stated: every provider-side error raised during a chat request, by
\* the listing call or by the generation call, reaches the caller of
\* gemini_chat unmodified.
C5_Original ==
  Done("chat") =>
    \A k \in 1..Len(call.r.raised) :
      call.r.raised[k].type = "ProviderError"
        => call.r.kind = "raise" /\ call.r.err = call.r.raised[k]

\* C5 amended: an error raised by the generation call reaches the caller of
\* gemini_chat unmodified; an error raised by the listing call is caught
\* inside _pick_gemini_model and the caller observes the no-usable-model
\* error instead.
C5_ProviderErrors ==
  Done("chat") =>
    \A k \in 1..Len(call.r.raised) :
      /\ call.r.raised[k] = GenerateContentError
           => call.r.kind = "raise" /\ call.r.err = GenerateContentError
      /\ call.r.raised[k] = ListModelsError
           => call.r.kind = "raise" /\ call.r.err = NoUsableModelError

C5_Witness ==
  /\ Done("chat") /\ call.model_name = None
  /\ CallCount(call.r.calls, "list_models") = 2
  /\ call.r.raised # <<>> /\ call.r.raised[Len(call.r.raised)] = ListModelsError
  /\ call.r.kind = "raise" /\ call.r.err = NoUsableModelError

StatusDigits(s) ==
  CASE s = 200 -> <<50, 48, 48>> [] s = 201 -> <<50, 48, 49>> [] s = 204 -> <<50, 48, 52>>
    [] s = 400 -> <<52, 48, 48>> [] s = 401 -> <<52, 48, 49>> [] s = 500 -> <<53, 48, 48>>
Includes(s, t) == \E i \in 1..(Len(s) + 1) : SubSeq(s, i, i + Len(t) - 1) = t
StatusErrorRaised ==
  /\ call.r.kind = "raise"
  /\ call.r.err.type = "RuntimeError"
  /\ Includes(call.r.err.msg, StatusDigits(call.http.status_code))
  /\ Includes(call.r.err.msg, call.http.text)
Answered == Done("image") /\ CallCount(call.r.calls, "post") = 1 /\ ~call.http.raises

\* the calls of Image.open, and the function handing back the image opened
\* on the body of the answer
OpenCalls == {i \in 1..Len(call.r.calls) : call.r.calls[i].op = "Image.open"}
ImageReturned ==
  /\ call.r.kind = "return" /\ call.r.err = NoError
  /\ call.r.val.fp = call.http.content

\* C6 as stated: after one POST, an HTTP success status returns the decoded
\* image and any other status fails with an error carrying the status code
\* and the response body.
C6_Original ==
  Answered =>
    IF call.http.status_code >= 200 /\ call.http.status_code < 300
    THEN ImageReturned
    ELSE StatusErrorRaised

\* C6 amended: after one POST that is answered, status 200 hands the body to
\* the image decoder, once and after the POST, and the outcome is the
\* decoder's: the image it opened on that body, or its error when it cannot
\* identify the body, which is not the status error; every status other
\* than 200, other 2xx codes included, fails without the decoder being
\* called, with an error whose message carries the status code and the
\* response body verbatim.
C6_ImageOutcome ==
  Answered =>
    /\ call.http.status_code = 200 =>
         /\ Cardinality(OpenCalls) = 1
         /\ \A i \in OpenCalls :
              /\ call.r.calls[i].arg = call.http.content
              /\ \E j \in 1..(i - 1) : call.r.calls[j].op = "post"
         /\ call.pil.opens => ImageReturned
         /\ ~call.pil.opens =>
              /\ call.r.kind = "raise"
              /\ call.r.err.type = "UnidentifiedImageError"
              /\ ~StatusErrorRaised
    /\ call.http.status_code # 200 => OpenCalls = {} /\ StatusErrorRaised

\* status 200 and a body the decoder opens
C6_Witness ==
  /\ Answered /\ call.http.status_code = 200 /\ call.pil.opens
  /\ Cardinality(OpenCalls) = 1
  /\ ImageReturned /\ call.http.content # <<>>

\* status 200 and a body the decoder cannot identify
C6_WitnessUnidentified ==
  /\ Answered /\ call.http.status_code = 200 /\ ~call.pil.opens
  /\ Cardinality(OpenCalls) = 1
  /\ call.r.kind = "raise" /\ call.r.err.type = "UnidentifiedImageError"

\* a success status other than 200, on a body the decoder would open
C6_WitnessOtherSuccess ==
  /\ Answered /\ call.http.status_code = 201 /\ call.pil.opens
  /\ OpenCalls = {}
  /\ StatusErrorRaised

\* C7: when every preference entry fails to construct and the listing has
\* no model supporting generation, the selection fails with the
\* no-usable-model error and returns no identifier.
C7_Exhaustion ==
  Done("pick") /\ NoneConstructs(TriedEntries) /\ SupportingAt(call.env.listing) = {}
    => call.r.kind = "raise" /\ call.r.err = NoUsableModelError /\ call.r.val = <<>>

C7_Witness ==
  /\ Done("pick") /\ call.prefer_list = <<NameFlash>> /\ call.env.constructs = {}
  /\ call.env.listing = <<ModelEmbedding, ModelFlash8b>> /\ ListingCompletes
  /\ call.r.kind = "raise" /\ call.r.err = NoUsableModelError

\* C8: every error raised by a client function is caught by the submit
\* handler and rendered as an error message; one press makes at most one
\* generation call and at most one POST; after any outcome the page accepts
\* a further submit.
C8_ErrorsRenderedNoRetry ==
  /\ run.r.kind = "raise" => run.ui.kind = "error" /\ run.ui.err = run.r.err
  /\ run.ui.kind # "uncaught"
  /\ CallCount(run.r.calls, "generate_content") <= 1
  /\ CallCount(run.r.calls, "post") <= 1
  /\ choice = PageChat => ENABLED ChatSubmit
  /\ choice = PageImage => ENABLED ImageSubmit

C8_Witness ==
  /\ run.handler = "chat" /\ run.r.kind = "raise" /\ run.r.err = GenerateContentError
  /\ CallCount(run.r.calls, "generate_content") = 1
  /\ run.ui.kind = "error" /\ choice = PageChat

ProviderText == IF run.env.resp.has_text /\ run.env.resp.text # None THEN run.env.resp.text ELSE <<>>

\* C9: gemini_chat returns the provider's response text without its leading
\* and trailing whitespace, and the empty string when the response has no
\* text; the page shows an empty result as a warning, a non-empty one as a
\* success message.
C9_TrimmedTextEmptyIsWarning ==
  run.handler = "chat" /\ run.r.kind = "return"
    => /\ IsTrimOf(run.r.val, ProviderText)
       /\ IF run.r.val = <<>>
          THEN run.ui.kind = "warning"
          ELSE run.ui.kind = "success" /\ run.ui.text = run.r.val

C9_Witness ==
  /\ run.handler = "chat" /\ run.r.kind = "return"
  /\ run.env.resp.text = <<32, 97, 110, 115, 119, 101, 114, 32>>
  /\ run.r.val = <<97, 110, 115, 119, 101, 114>>
  /\ run.ui.kind = "success"

FirstYield == IF call.env.cut1 = NoCut THEN call.env.listing
              ELSE SubSeq(call.env.listing, 1, call.env.cut1)

\* C10: when no preference entry constructs, the selection returns the first
\* generation-supporting model carrying the version tag whenever the listing
\* yields one, even after an untagged supporting model; without a tagged
\* one it returns the first supporting model in listing order; a model that
\* does not support generation is never returned.
C10_FallbackOrdering ==
  Done("pick") /\ NoneConstructs(TriedEntries) =>
    /\ TaggedSupportingAt(FirstYield) # {}
         => /\ call.r.kind = "return"
            /\ call.r.val = FirstYield[Least(TaggedSupportingAt(FirstYield))].name
    /\ ListingCompletes /\ TaggedSupportingAt(call.env.listing) = {}
         /\ SupportingAt(call.env.listing) # {}
         => /\ call.r.kind = "return"
            /\ call.r.val = call.env.listing[Least(SupportingAt(call.env.listing))].name
    /\ call.r.kind = "return"
         => /\ \E i \in SupportingAt(call.env.listing) : call.env.listing[i].name = call.r.val
            /\ \A i \in 1..Len(call.env.listing) :
                 call.env.listing[i].name = call.r.val => ListsGenerateContent(call.env.listing[i])

C10_Witness ==
  /\ Done("pick") /\ NoneConstructs(TriedEntries)
  /\ call.env.listing = <<ModelGeminiPro, ModelVision15>>
  /\ call.r.kind = "return" /\ call.r.val = NameVision15
====
